---- MODULE Spec2Model ----
(***************************************************************************)
(* Model of dd_manager.py: the task store (tasks.json), the statistics     *)
(* scan (stats), the random assignment (assign) and the two validation     *)
(* scans (check).  One CLI invocation is one run: it loads the store,      *)
(* executes its command step by step and ends normally or by an unhandled  *)
(* exception.  The remote API is the environment: every reply (a failure,  *)
(* each finding of a page, the end of the page and its next link, the open *)
(* pool, the fate of a POST) is chosen nondeterministically when the        *)
(* program reads it.                                                       *)
(***************************************************************************)
EXTENDS Integers, Sequences, FiniteSets, TLC

(***************************************************************************)
(* Bounds of the model.                                                    *)
(***************************************************************************)
MaxRuns == 2          \* CLI invocations in one behaviour
MaxPages == 2         \* pages one paged scan may fetch
MaxScan == 2          \* findings all pages of one stats scan hold together
NumFindings == 3      \* finding ids are 1..NumFindings
MaxPool == 3          \* findings the reply to assign_tasks lists

\* Python's None
None == [none |-> TRUE]

FindingIds == 1..NumFindings
\* calendar days: before, first, last and after the days of the window <<2, 3>>
Days == {1, 2, 3, 4}

\* keys of tasks.json in file (dict iteration) order
UserOrder == <<"1", "2">>
UserKeys == {UserOrder[i] : i \in 1..Len(UserOrder)}

\* user ids as the remote API reports them (integers); 9 is not in the store
RemoteUserIds == {1, 2, 9}

\* str(user_id) of lines 126 and 147
str(n) == ToString(n)

\* date windows a stats run may be started with: <<start, end>>
Windows == {<<2, 3>>, <<4, 2>>}

VARIABLES
    file,       \* content of tasks.json
    users,      \* self.users of the running process
    loaded,     \* what the current (or last) run read from tasks.json
    pc,         \* position of the running process, "idle" between runs
    cmd,        \* command of the current (or last) run
    save,       \* its --save flag
    window,     \* <<self._start_date, self._end_date>>
    pageNo,     \* pages fetched by the current paged scan
    scanned,    \* findings the scan loop has examined in this run
    finding,    \* the finding the scan loop examined last (None before)
    stopped,    \* the scan returned from inside the loop
    getFailed,  \* a GET of this run raised inside _send_request
    closes,     \* per user and finding id: _close_task calls that found the user
    processed,  \* finding ids passed to _close_task in this run
    pool,       \* the list findings of assign_tasks (the dicts, in order)
    pool0,      \* the pool as fetched
    ui,         \* index in UserOrder of the user being served
    drawn,      \* draws done for that user
    tagged,     \* finding ids whose "inwork" POST was sent and answered
    outcome,    \* how the last run ended
    debtsDone,  \* _calculate_debts calls of this run
    runs        \* runs started

vars == <<file, users, loaded, pc, cmd, save, window, pageNo, scanned,
          finding, stopped, getFailed, closes, processed, pool, pool0,
          ui, drawn, tagged, outcome, debtsDone, runs>>

scanVars == <<pageNo, scanned, finding, stopped>>
assignVars == <<pool, pool0, ui, drawn, tagged>>

(***************************************************************************)
(* The store.                                                              *)
(***************************************************************************)
User(nm, norm, closed, debt, tasks) ==
    [name |-> nm, norm |-> norm, closed |-> closed, risk_accepted |-> 0,
     task_closed |-> 0, debt |-> debt, tasks |-> tasks]

\* stores the operator may have written: no finding id is shared
InitStores ==
    { [k \in UserKeys |->
          IF k = "1" THEN User("ann", 2, 1, 0, t1) ELSE User("bob", n2, 0, 0, <<2>>)] :
      t1 \in {<<>>, <<1>>}, n2 \in {1, 2} }

\* list.remove(x): drops the first occurrence
RECURSIVE remove(_, _)
remove(s, x) ==
    IF s = <<>> THEN <<>>
    ELSE IF Head(s) = x THEN Tail(s)
    ELSE <<Head(s)>> \o remove(Tail(s), x)

InList(s, x) == \E i \in 1..Len(s) : s[i] = x

\* _send_request: the JSON body, or None when requests.get/.json() raised
send_request(reply) == IF reply.raises THEN None ELSE reply.body

\* _close_task
close_task(us, user_id, finding_id, finding_type) ==
    IF user_id \notin DOMAIN us THEN us
    ELSE LET u == us[user_id]
             counted == IF finding_type = "closed"
                        THEN [u EXCEPT !.closed = @ + 1]
                        ELSE [u EXCEPT !.risk_accepted = @ + 1]
         IN  IF InList(counted.tasks, finding_id)
             THEN [us EXCEPT ![user_id] =
                      [counted EXCEPT !.task_closed = @ + 1,
                                      !.tasks = remove(@, finding_id)]]
             ELSE [us EXCEPT ![user_id] = counted]

\* _calculate_debts forgetting the risk acceptances
calculate_debts_no_risk(us) ==
    [k \in DOMAIN us |-> [us[k] EXCEPT !.debt = @ + us[k].norm - us[k].closed]]

\* _calculate_debts never lowering a debt
calculate_debts_clamped(us) ==
    [k \in DOMAIN us |->
        LET d == us[k].norm - (us[k].closed + us[k].risk_accepted)
        IN  [us[k] EXCEPT !.debt = @ + (IF d < 0 THEN 0 ELSE d)]]

\* _calculate_debts
calculate_debts(us) ==
    [k \in DOMAIN us |->
        [us[k] EXCEPT !.debt = @ + us[k].norm - (us[k].closed + us[k].risk_accepted)]]

\* _clean_stats leaving task_closed
clean_stats_keeps_task_closed(us) ==
    [k \in DOMAIN us |-> [us[k] EXCEPT !.closed = 0, !.risk_accepted = 0]]

\* _clean_stats
clean_stats(us) ==
    [k \in DOMAIN us |->
        [us[k] EXCEPT !.task_closed = 0, !.closed = 0, !.risk_accepted = 0]]

(***************************************************************************)
(* Findings of the closed-findings list.  A timestamp is <<day, time>>;    *)
(* .date() keeps the day.                                                  *)
(***************************************************************************)
date(ts) == ts[1]

Mitigated(id, d, by) ==
    [id |-> id, is_mitigated |-> TRUE, risk_accepted |-> FALSE,
     mitigated |-> <<d, 0>>, mitigated_by |-> by,
     created |-> <<d, 0>>, updated |-> <<d, 0>>, owner |-> by]

\* edited: "updated" is later the same day than "created"
RiskAccepted(id, d, edited, by) ==
    [id |-> id, is_mitigated |-> FALSE, risk_accepted |-> TRUE,
     mitigated |-> <<d, 0>>, mitigated_by |-> 9,
     created |-> <<d, 0>>, updated |-> <<d, IF edited THEN 1 ELSE 0>>,
     owner |-> by]

Other(id) ==
    [id |-> id, is_mitigated |-> FALSE, risk_accepted |-> FALSE,
     mitigated |-> <<1, 0>>, mitigated_by |-> 9,
     created |-> <<1, 0>>, updated |-> <<1, 0>>, owner |-> 9]

\* a finding that is both mitigated and risk accepted (the first branch wins)
Both(id, d, by) ==
    [id |-> id, is_mitigated |-> TRUE, risk_accepted |-> TRUE,
     mitigated |-> <<d, 0>>, mitigated_by |-> by,
     created |-> <<1, 0>>, updated |-> <<1, 1>>, owner |-> 9]

\* the findings a page may hold: every kind on every day for one id and
\* user, and in-window ones for every id and user
Findings ==
    {Mitigated(1, d, 1) : d \in Days}
    \cup {RiskAccepted(1, d, e, 1) : d \in Days, e \in BOOLEAN}
    \cup {Mitigated(id, 2, by) : id \in FindingIds, by \in RemoteUserIds}
    \cup {RiskAccepted(id, 3, FALSE, by) : id \in FindingIds, by \in RemoteUserIds}
    \cup {Both(1, d, 2) : d \in {1, 2}}
    \cup {Other(1)}

\* the loop body comparing the dates, not the timestamps, of created and updated
finding_action_edit_by_date(f, start, end) ==
    IF f.is_mitigated THEN
        IF end < date(f.mitigated) THEN "continue"
        ELSE IF date(f.mitigated) < start THEN "return"
        ELSE "closed"
    ELSE IF f.risk_accepted THEN
        IF end < date(f.created) THEN "continue"
        ELSE IF date(f.created) < start THEN
            IF date(f.created) # date(f.updated) THEN "continue" ELSE "return"
        ELSE "risk_accepted"
    ELSE "continue"

\* the loop body with a window that excludes its first day
finding_action_open_start(f, start, end) ==
    IF f.is_mitigated THEN
        IF end < date(f.mitigated) THEN "continue"
        ELSE IF date(f.mitigated) <= start THEN "return"
        ELSE "closed"
    ELSE IF f.risk_accepted THEN
        IF end < date(f.created) THEN "continue"
        ELSE IF date(f.created) <= start THEN
            IF f.created # f.updated THEN "continue" ELSE "return"
        ELSE "risk_accepted"
    ELSE "continue"

\* the loop body of _get_findings for one finding: what it decides
finding_action(f, start, end) ==
    IF f.is_mitigated THEN
        IF end < date(f.mitigated) THEN "continue"
        ELSE IF date(f.mitigated) < start THEN "return"
        ELSE "closed"
    ELSE IF f.risk_accepted THEN
        IF end < date(f.created) THEN "continue"
        ELSE IF date(f.created) < start THEN
            IF f.created # f.updated THEN "continue" ELSE "return"
        ELSE "risk_accepted"
    ELSE "continue"

\* the user the finding is attributed to
finding_user(f) == IF f.is_mitigated THEN str(f.mitigated_by) ELSE str(f.owner)

(***************************************************************************)
(* Initial state: tasks.json as the operator wrote it, no run started.     *)
(***************************************************************************)
NoCloses == [k \in UserKeys |-> [i \in FindingIds |-> 0]]

\* the closed findings the remote lists in the runs of Spec
Database ==
    {Mitigated(1, 2, 1), Mitigated(1, 3, 2), RiskAccepted(2, 2, FALSE, 2),
     Mitigated(3, 1, 1)}

Start(stores, r) ==
    /\ runs = r
    /\ file \in stores
    /\ users = file
    /\ loaded = file
    /\ pc = "idle"
    /\ cmd = "none"
    /\ save = FALSE
    /\ window = <<2, 3>>
    /\ pageNo = 0
    /\ scanned = 0
    /\ finding = None
    /\ stopped = FALSE
    /\ getFailed = FALSE
    /\ closes = NoCloses
    /\ processed = {}
    /\ pool = <<>>
    /\ pool0 = <<>>
    /\ ui = 0
    /\ drawn = 0
    /\ tagged = {}
    /\ outcome = "none"
    /\ debtsDone = 0

Init == Start(InitStores, 0)

\* __init__ (with _read_tasks_file) of a new process; the ghosts start afresh
StartRun(c, s, w, first) ==
    /\ pc = "idle"
    /\ runs < MaxRuns
    /\ runs' = runs + 1
    /\ users' = file
    /\ loaded' = file
    /\ cmd' = c
    /\ save' = s
    /\ window' = w
    /\ pc' = first
    /\ pageNo' = 0 /\ scanned' = 0
    /\ finding' = None /\ stopped' = FALSE
    /\ getFailed' = FALSE /\ closes' = NoCloses /\ processed' = {}
    /\ pool' = <<>> /\ pool0' = <<>> /\ ui' = 0 /\ drawn' = 0 /\ tagged' = {}
    /\ outcome' = "running"
    /\ debtsDone' = 0
    /\ UNCHANGED <<file>>

\* an unhandled exception ends the process: nothing more is written
Raise(exc) ==
    /\ pc' = "exit"
    /\ outcome' = exc

\* the replies a GET may produce: an exception inside requests, or a body
Replies(bodies) ==
    {[raises |-> TRUE, body |-> None]}
    \cup {[raises |-> FALSE, body |-> b] : b \in bodies}

(***************************************************************************)
(* stats                                                                   *)
(***************************************************************************)
\* stats(args): DD(...) then get_statistic
Stats ==
    \E s \in BOOLEAN, w \in Windows : StartRun("stats", s, w, "get_findings")

\* _get_findings, lines 106-114: the GET of one page
GetFindingsRequest ==
    /\ pc = "get_findings"
    /\ \E reply \in Replies({[page |-> pageNo + 1]}) :
         LET findings_temp == send_request(reply) IN
         IF findings_temp = None
         THEN \* None["results"] raises TypeError
              /\ Raise("TypeError")
              /\ getFailed' = TRUE
              /\ UNCHANGED pageNo
         ELSE /\ pc' = "scan"
              /\ pageNo' = findings_temp.page
              /\ UNCHANGED <<outcome, getFailed>>
    /\ UNCHANGED <<file, users, loaded, cmd, save, window, scanned, finding,
                   stopped, closes, processed, debtsDone, runs>>
    /\ UNCHANGED assignVars

\* _get_findings, lines 114-147: one iteration of the loop over the page,
\* the page holding one more finding, one of those the remote lists
ScanFinding(listed) ==
    /\ pc = "scan"
    /\ scanned < MaxScan
    /\ \E f \in listed :
         LET act == finding_action(f, window[1], window[2])
             uid == finding_user(f)
         IN  /\ finding' = f
             /\ scanned' = scanned + 1
             /\ IF act = "return"
                THEN /\ pc' = "calculate_debts"
                     /\ stopped' = TRUE
                     /\ UNCHANGED <<users, closes, processed>>
                ELSE IF act = "continue"
                THEN UNCHANGED <<pc, stopped, users, closes, processed>>
                ELSE /\ users' = close_task(users, uid, f.id, act)
                     /\ processed' = processed \cup {f.id}
                     /\ closes' = IF uid \in UserKeys
                                  THEN [closes EXCEPT ![uid][f.id] = @ + 1]
                                  ELSE closes
                     /\ UNCHANGED <<pc, stopped>>
    /\ UNCHANGED <<file, loaded, cmd, save, window, pageNo, getFailed,
                   outcome, debtsDone, runs>>
    /\ UNCHANGED assignVars

\* _get_findings, lines 149-150: the page is exhausted; its next link decides
EndOfPage ==
    /\ pc = "scan"
    /\ \E next \in (IF pageNo < MaxPages THEN BOOLEAN ELSE {FALSE}) :
         pc' = IF next THEN "get_findings" ELSE "calculate_debts"
    /\ finding' = None
    /\ UNCHANGED <<file, users, loaded, cmd, save, window, pageNo, scanned,
                   stopped, getFailed, closes, processed, outcome, debtsDone,
                   runs>>
    /\ UNCHANGED assignVars

\* get_statistic, line 90
CalculateDebts ==
    /\ pc = "calculate_debts"
    /\ users' = calculate_debts(users)
    /\ debtsDone' = debtsDone + 1
    /\ pc' = "print_results"
    /\ finding' = None
    /\ UNCHANGED <<file, loaded, cmd, save, window, getFailed, closes,
                   processed, outcome, runs>>
    /\ UNCHANGED <<pageNo, scanned, stopped>>
    /\ UNCHANGED assignVars

\* get_statistic, lines 91-93: _print_results changes nothing
PrintResults ==
    /\ pc = "print_results"
    /\ IF save
       THEN pc' = "clean_stats" /\ UNCHANGED outcome
       ELSE pc' = "exit" /\ outcome' = "done"
    /\ UNCHANGED <<file, users, loaded, cmd, save, window, getFailed, closes,
                   processed, debtsDone, runs>>
    /\ UNCHANGED scanVars
    /\ UNCHANGED assignVars

\* get_statistic, line 95
CleanStats ==
    /\ pc = "clean_stats"
    /\ users' = clean_stats(users)
    /\ pc' = "write_stats"
    /\ UNCHANGED <<file, loaded, cmd, save, window, getFailed, closes, processed,
                   outcome, debtsDone, runs>>
    /\ UNCHANGED scanVars
    /\ UNCHANGED assignVars

\* get_statistic, line 96: _write_tasks_file
WriteStats ==
    /\ pc = "write_stats"
    /\ file' = users
    /\ pc' = "exit"
    /\ outcome' = "done"
    /\ UNCHANGED <<users, loaded, cmd, save, window, getFailed, closes,
                   processed, debtsDone, runs>>
    /\ UNCHANGED scanVars
    /\ UNCHANGED assignVars

(***************************************************************************)
(* assign                                                                  *)
(***************************************************************************)
\* user["tasks"].append(finding_id), line 208
append_task(us, key, finding_id) ==
    [us EXCEPT ![key].tasks = Append(@, finding_id)]

\* findings.remove(finding), line 210: list.remove compares the whole
\* finding dicts, and the first entry equal to the drawn one goes
remove_finding(findings, f) == remove(findings, f)

\* an entry of the open-findings reply: a dict with its id and its other
\* fields (title stands for them), so that two entries of one id may differ
OpenFinding(id, title) == [id |-> id, title |-> title]

OpenFindings == {OpenFinding(id, t) : id \in FindingIds, t \in {"a", "b"}}

\* the lists the open-findings reply may hold: any entries, repeated or not
RECURSIVE Lists(_)
Lists(n) ==
    IF n = 0 THEN {<<>>}
    ELSE Lists(n - 1)
         \cup {Append(l, f) : l \in {x \in Lists(n - 1) : Len(x) = n - 1},
                              f \in OpenFindings}

Pools == Lists(MaxPool)

\* assign(args): DD(...) then assign_tasks
Assign ==
    \E s \in BOOLEAN : StartRun("assign", s, <<2, 3>>, "assign_fetch")

\* assign_tasks, lines 191-195: the single GET of the open pool
AssignRequest ==
    /\ pc = "assign_fetch"
    /\ \E reply \in {[raises |-> TRUE, body |-> None]}
                    \cup {[raises |-> FALSE, body |-> [results |-> p]] :
                             p \in Pools} :
         LET findings_temp == send_request(reply) IN
         IF findings_temp = None
         THEN \* None["results"] raises TypeError
              /\ Raise("TypeError")
              /\ getFailed' = TRUE
              /\ UNCHANGED <<pool, pool0>>
         ELSE /\ pc' = "assign_user"
              /\ pool' = findings_temp.results
              /\ pool0' = findings_temp.results
              /\ UNCHANGED <<outcome, getFailed>>
    /\ UNCHANGED <<file, users, loaded, cmd, save, window, closes,
                   processed, ui, drawn, tagged, debtsDone, runs>>
    /\ UNCHANGED scanVars

\* assign_tasks, lines 198-203 and 218: the head of the loop over the users
AssignUser ==
    /\ pc = "assign_user"
    /\ IF ui < Len(UserOrder)
       THEN /\ ui' = ui + 1
            /\ drawn' = 0
            /\ pc' = "assign_draw"
            /\ UNCHANGED outcome
       ELSE /\ UNCHANGED <<ui, drawn>>
            /\ IF save
               THEN pc' = "assign_write" /\ UNCHANGED outcome
               ELSE pc' = "exit" /\ outcome' = "done"
    /\ UNCHANGED <<file, users, loaded, cmd, save, window, getFailed,
                   closes, processed, pool, pool0, tagged, debtsDone, runs>>
    /\ UNCHANGED scanVars

\* assign_tasks, lines 205-215: one iteration of range(user["norm"])
AssignDraw ==
    /\ pc = "assign_draw"
    /\ LET key == UserOrder[ui] IN
       IF drawn < users[key].norm
       THEN IF pool = <<>>
            THEN \* random.choice([]) raises IndexError
                 /\ Raise("IndexError")
                 /\ UNCHANGED <<users, pool, drawn, tagged>>
            ELSE \E i \in 1..Len(pool),
                    postRaises \in (IF save THEN BOOLEAN ELSE {FALSE}) :
                 LET f == pool[i] IN
                 /\ users' = append_task(users, key, f.id)
                 /\ pool' = remove_finding(pool, f)
                 /\ IF postRaises
                    THEN \* requests.post raises, line 214 has no try
                         /\ Raise("ConnectionError")
                         /\ UNCHANGED <<drawn, tagged>>
                    ELSE /\ drawn' = drawn + 1
                         /\ tagged' = IF save THEN tagged \cup {f.id}
                                              ELSE tagged
                         /\ UNCHANGED <<pc, outcome>>
       ELSE /\ pc' = "assign_user"
            /\ UNCHANGED <<users, pool, drawn, tagged, outcome>>
    /\ UNCHANGED <<file, loaded, cmd, save, window, getFailed, closes,
                   processed, pool0, ui, debtsDone, runs>>
    /\ UNCHANGED scanVars

\* assign_tasks, line 219: _write_tasks_file
AssignWrite ==
    /\ pc = "assign_write"
    /\ file' = users
    /\ pc' = "exit"
    /\ outcome' = "done"
    /\ UNCHANGED <<users, loaded, cmd, save, window, getFailed, closes,
                   processed, debtsDone, runs>>
    /\ UNCHANGED scanVars
    /\ UNCHANGED assignVars

(***************************************************************************)
(* check: two print-only paged scans                                       *)
(***************************************************************************)
Check == StartRun("check", FALSE, <<2, 3>>, "check_reactivate")

\* one GET of a check scan; the records of the page are only printed
CheckRequest(here, after) ==
    /\ pc = here
    /\ \E reply \in Replies({[next |-> nx] :
                        nx \in (IF pageNo + 1 < MaxPages THEN BOOLEAN ELSE {FALSE})}) :
         LET findings_temp == send_request(reply) IN
         IF findings_temp = None
         THEN \* None["results"] raises TypeError
              /\ Raise("TypeError")
              /\ getFailed' = TRUE
              /\ UNCHANGED pageNo
         ELSE /\ UNCHANGED getFailed
              /\ IF findings_temp.next
                 THEN /\ pageNo' = pageNo + 1
                      /\ UNCHANGED <<pc, outcome>>
                 ELSE /\ pageNo' = 0
                      /\ pc' = after
                      /\ outcome' = IF after = "exit" THEN "done" ELSE outcome
    /\ UNCHANGED <<file, users, loaded, cmd, save, window, scanned,
                   finding, stopped, closes, processed, debtsDone, runs>>
    /\ UNCHANGED assignVars

\* _check_reactivate_expired
CheckReactivateExpired == CheckRequest("check_reactivate", "check_active")

\* _check_active_risk_accepted
CheckActiveRiskAccepted == CheckRequest("check_active", "exit")

\* the process has ended; the next invocation starts from the file alone
Exit ==
    /\ pc = "exit"
    /\ pc' = "idle"
    /\ users' = file
    /\ loaded' = file
    /\ cmd' = "none"
    /\ save' = FALSE
    /\ window' = <<2, 3>>
    /\ pageNo' = 0 /\ scanned' = 0
    /\ finding' = None /\ stopped' = FALSE
    /\ getFailed' = FALSE /\ closes' = NoCloses /\ processed' = {}
    /\ pool' = <<>> /\ pool0' = <<>> /\ ui' = 0 /\ drawn' = 0 /\ tagged' = {}
    /\ outcome' = "none"
    /\ debtsDone' = 0
    /\ UNCHANGED <<file, runs>>

StatsNext == Exit \/ Stats \/ GetFindingsRequest \/ ScanFinding(Findings)
             \/ EndOfPage
             \/ CalculateDebts \/ PrintResults \/ CleanStats \/ WriteStats

Next == Exit \/ Stats \/ GetFindingsRequest \/ ScanFinding(Database) \/ EndOfPage
        \/ CalculateDebts \/ PrintResults \/ CleanStats \/ WriteStats
        \/ Assign \/ AssignRequest \/ AssignUser \/ AssignDraw \/ AssignWrite
        \/ Check \/ CheckReactivateExpired \/ CheckActiveRiskAccepted

\* any sequence of invocations of the three commands
Spec == Init /\ [][Next]_vars

\* stores a stats run may load: lists with a repeated id and counters and a
\* debt left by earlier runs included
ScanStores ==
    { [k \in UserKeys |->
          IF k = "1" THEN User("ann", 2, c, 1, t1) ELSE User("bob", 1, 0, 0, <<2>>)] :
      c \in {0, 1}, t1 \in {<<1>>, <<1, 3, 1>>} }

InitScan == Start(ScanStores, MaxRuns - 1)

\* one stats run over any closed-findings list
SpecScan == InitScan /\ [][StatsNext]_vars

(***************************************************************************)
(* Properties                                                              *)
(***************************************************************************)
Start_date == window[1]
End_date == window[2]

\* the date the scan compares with the window, for a finding it dates
Dated(f) == f.is_mitigated \/ f.risk_accepted
DateOf(f) == IF f.is_mitigated THEN f.mitigated[1] ELSE f.created[1]
EditedRisk(f) == ~f.is_mitigated /\ f.risk_accepted /\ f.created # f.updated

\* the store key of the user a finding names
KeyOf(f) == ToString(IF f.is_mitigated THEN f.mitigated_by ELSE f.owner)

\* a step of the scan loop that examined one more finding
Examined == scanned' = scanned + 1

RECURSIVE SumOver(_, _)
SumOver(f, S) ==
    IF S = {} THEN 0
    ELSE LET x == CHOOSE y \in S : TRUE IN f[x] + SumOver(f, S \ {x})

\* closures and acceptances counted for user k at the end of this scan
Counted(k) ==
    loaded[k].closed + loaded[k].risk_accepted + SumOver(closes[k], FindingIds)

\* list s without, for every id, its first cnt[id] occurrences
RECURSIVE Without(_, _)
Without(s, cnt) ==
    IF s = <<>> THEN <<>>
    ELSE IF cnt[Head(s)] > 0
         THEN Without(Tail(s), [cnt EXCEPT ![Head(s)] = @ - 1])
         ELSE <<Head(s)>> \o Without(Tail(s), cnt)

\* s with its first occurrence of x taken out, stated by position
IsFirstRemoved(s, x, t) ==
    \E i \in 1..Len(s) :
        /\ s[i] = x
        /\ \A j \in 1..(i - 1) : s[j] # x
        /\ t = SubSeq(s, 1, i - 1) \o SubSeq(s, i + 1, Len(s))

\* C1: in a stats run the debt is untouched until _calculate_debts, which runs
\* exactly once; right after it every user's debt is the loaded debt plus norm
\* minus (closed + risk_accepted) as counted at the end of the scan, whether
\* or not the scan stopped early.
C1_DebtAccrual ==
    cmd = "stats" =>
        /\ debtsDone <= 1
        /\ pc \in {"get_findings", "scan", "calculate_debts"} =>
              /\ debtsDone = 0
              /\ \A k \in UserKeys : users[k].debt = loaded[k].debt
        /\ pc = "print_results" =>
              /\ debtsDone = 1
              /\ \A k \in UserKeys :
                    users[k].debt = loaded[k].debt + users[k].norm
                                    - (users[k].closed + users[k].risk_accepted)

\* C1 witness: debts calculated after a scan that stopped early and had
\* attributed a risk acceptance before.
C1_Witness ==
    /\ cmd = "stats" /\ pc = "print_results" /\ stopped
    /\ users["2"].risk_accepted = 1

SavedStats == cmd = "stats" /\ pc = "exit" /\ outcome = "done" /\ save

\* C3 as stated: the debt written by a saved stats run is never lower than the
\* debt the run loaded.
C3_DebtOnlyIncreases ==
    SavedStats => \A k \in UserKeys : file[k].debt >= loaded[k].debt

\* C3 amended: the debt written by a saved stats run is the loaded debt plus
\* norm minus the closures and acceptances counted for the user; it is not
\* lower than the loaded debt exactly when that count does not exceed norm.
C3_DebtChange ==
    SavedStats =>
        \A k \in UserKeys :
            /\ file[k].debt = loaded[k].debt + loaded[k].norm - Counted(k)
            /\ (file[k].debt >= loaded[k].debt) <=> (Counted(k) <= loaded[k].norm)

\* C3 witness: a saved stats run that raised one user's debt and lowered the
\* debt of a user with more closures than norm.
C3_Witness ==
    /\ SavedStats
    /\ file["1"].debt > loaded["1"].debt
    /\ file["2"].debt < loaded["2"].debt

\* C4 as stated: at the end of the scan no user's tasks list holds the id of
\* a finding the scan passed to _close_task.
C4_ClosedAbsentEverywhere ==
    (cmd = "stats" /\ pc = "calculate_debts") =>
        \A id \in processed, k \in UserKeys : ~InList(users[k].tasks, id)

\* C5: a scan step that examines a finding dated after the window end skips
\* it and goes on; one that examines a finding dated before the window start
\* (and not after its end) returns, unless the finding is a risk acceptance
\* whose created and updated timestamps differ, which is skipped; the loop is
\* left on an examined finding in no other case; once the scan has returned,
\* no finding is examined or attributed and no page is requested.
C5_ScanStops ==
    [][ /\ Examined =>
            LET f == finding' IN
            /\ pc = "scan"
            /\ (Dated(f) /\ End_date < DateOf(f)) =>
                   (pc' = "scan" /\ ~stopped' /\ users' = users)
            /\ (Dated(f) /\ ~(End_date < DateOf(f)) /\ DateOf(f) < Start_date
                   /\ ~EditedRisk(f)) =>
                   (pc' = "calculate_debts" /\ stopped' /\ users' = users)
            /\ (Dated(f) /\ ~(End_date < DateOf(f)) /\ DateOf(f) < Start_date
                   /\ EditedRisk(f)) =>
                   (pc' = "scan" /\ ~stopped' /\ users' = users)
            /\ pc' # "scan" =>
                   (Dated(f) /\ DateOf(f) < Start_date /\ ~EditedRisk(f))
        /\ (stopped /\ pc # "exit") =>
            /\ ~Examined
            /\ pc' \notin {"scan", "get_findings"}
            /\ pageNo' = pageNo /\ closes' = closes /\ processed' = processed
            /\ \A k \in UserKeys :
                  /\ users'[k].tasks = users[k].tasks
                  /\ pc = "calculate_debts" =>
                        /\ users'[k].closed = users[k].closed
                        /\ users'[k].risk_accepted = users[k].risk_accepted
                        /\ users'[k].task_closed = users[k].task_closed
      ]_vars

\* C5 witness: the scan returned on the second finding, on its second page,
\* a risk acceptance that was never edited.
C5_Witness ==
    /\ pc = "calculate_debts" /\ stopped /\ pageNo = 2 /\ scanned = 2
    /\ finding # None /\ ~finding.is_mitigated /\ finding.risk_accepted
    /\ finding.created = finding.updated

\* C9: a scan step that examines a mitigated (risk-accepted) finding dated
\* within start..end, both days included, and naming a user of the store adds
\* one to that user's closed (risk_accepted) counter and to nothing else of
\* the counters; if the finding id is in that user's tasks its first
\* occurrence is removed and task_closed grows by one, else both stay; no
\* other field and no other user changes.
C9_InclusiveWindow ==
    [][ Examined =>
          LET f == finding'
              k == KeyOf(f)
          IN  (Dated(f) /\ Start_date <= DateOf(f) /\ DateOf(f) <= End_date
                 /\ k \in UserKeys) =>
                /\ users'[k].closed =
                      users[k].closed + (IF f.is_mitigated THEN 1 ELSE 0)
                /\ users'[k].risk_accepted =
                      users[k].risk_accepted + (IF f.is_mitigated THEN 0 ELSE 1)
                /\ IF \E i \in 1..Len(users[k].tasks) : users[k].tasks[i] = f.id
                   THEN /\ IsFirstRemoved(users[k].tasks, f.id, users'[k].tasks)
                        /\ users'[k].task_closed = users[k].task_closed + 1
                   ELSE /\ users'[k].tasks = users[k].tasks
                        /\ users'[k].task_closed = users[k].task_closed
                /\ users'[k].debt = users[k].debt
                /\ users'[k].norm = users[k].norm
                /\ users'[k].name = users[k].name
                /\ \A o \in UserKeys \ {k} : users'[o] = users[o]
                /\ pc' = "scan"
      ]_vars

\* C9 witness: a finding mitigated on the first day of the window was counted
\* and taken from the closer's tasks, then a risk acceptance created on the
\* last day was counted for its owner.
C9_Witness ==
    /\ pc = "scan" /\ scanned = 2
    /\ finding # None /\ ~finding.is_mitigated /\ finding.risk_accepted
    /\ finding.created[1] = End_date /\ finding.owner = 2
    /\ users["2"].risk_accepted = loaded["2"].risk_accepted + 1
    /\ users["1"].closed = loaded["1"].closed + 1
    /\ users["1"].task_closed = 1
    /\ closes["1"][1] = 1

\* C2 as stated: no finding id is in the persisted tasks lists of two users.
C2_NoSharedTask ==
    \A id \in FindingIds, k \in UserKeys, o \in UserKeys :
        (k # o) => ~(InList(file[k].tasks, id) /\ InList(file[o].tasks, id))

\* C6 as stated: a failed GET raises nothing in the caller, and a stats run
\* whose GET failed still calculates the debts before it ends.
C6_GetFailureIsSilent ==
    getFailed =>
        /\ outcome # "TypeError"
        /\ (cmd = "stats" /\ pc = "exit") => debtsDone = 1

\* ids appended to user k's tasks in this assign run
NewTasks(k) == SubSeq(users[k].tasks, Len(loaded[k].tasks) + 1, Len(users[k].tasks))

RECURSIVE NormUpTo(_)
NormUpTo(i) == IF i = 0 THEN 0 ELSE loaded[UserOrder[i]].norm + NormUpTo(i - 1)

SumNorm == NormUpTo(Len(UserOrder))

Distinct(s) == \A i, j \in 1..Len(s) : (i # j) => s[i] # s[j]

InPool0(id) == \E i \in 1..Len(pool0) : pool0[i].id = id

\* C7 as stated: an assign run whose fetch returned a pool ends normally iff
\* the pool holds at least the sum of the norms; then every user got exactly
\* norm new ids of the pool, pairwise distinct, after the tasks loaded, and
\* the file is written iff save.  Otherwise it ends by IndexError on a draw
\* from the empty pool: the users before got exactly norm ids, the user being
\* served got what was left (fewer than norm), the later ones nothing, and
\* the file is not written.
C7_AssignCompletesIff ==
    (cmd = "assign" /\ pc = "exit" /\ ~getFailed) =>
        /\ outcome \in {"done", "IndexError"}
        /\ (outcome = "done") <=> (Len(pool0) >= SumNorm)
        /\ \A k \in UserKeys :
              /\ Len(users[k].tasks) >= Len(loaded[k].tasks)
              /\ SubSeq(users[k].tasks, 1, Len(loaded[k].tasks)) = loaded[k].tasks
              /\ \A i \in 1..Len(NewTasks(k)) : InPool0(NewTasks(k)[i])
        /\ outcome = "done" =>
              /\ \A k \in UserKeys :
                    /\ Len(NewTasks(k)) = loaded[k].norm
                    /\ Distinct(NewTasks(k))
              /\ file = IF save THEN users ELSE loaded
        /\ outcome = "IndexError" =>
              /\ pool = <<>>
              /\ file = loaded
              /\ ui \in 1..Len(UserOrder)
              /\ \A i \in 1..Len(UserOrder) :
                    Len(NewTasks(UserOrder[i])) =
                        IF i < ui THEN loaded[UserOrder[i]].norm
                        ELSE IF i = ui THEN Len(pool0) - NormUpTo(ui - 1)
                        ELSE 0
              /\ drawn = Len(NewTasks(UserOrder[ui]))
              /\ drawn < loaded[UserOrder[ui]].norm

\* C8: a stats run that ended normally with save has written, for every
\* user, closed = risk_accepted = task_closed = 0, the loaded debt plus norm
\* minus the counted closures and acceptances, the loaded name and norm, and
\* the loaded tasks without one occurrence of an id per closure of it by that
\* user; any other stats run leaves the file as loaded; and a stats run
\* starts from the file.
C8_SavedStatsStore ==
    cmd = "stats" =>
        /\ (pc = "get_findings" /\ pageNo = 0) => (users = file /\ loaded = file)
        /\ pc = "exit" =>
              IF outcome = "done" /\ save
              THEN \A k \in UserKeys :
                     file[k] = [name |-> loaded[k].name,
                                norm |-> loaded[k].norm,
                                closed |-> 0,
                                risk_accepted |-> 0,
                                task_closed |-> 0,
                                debt |-> loaded[k].debt + loaded[k].norm - Counted(k),
                                tasks |-> Without(loaded[k].tasks, closes[k])]
              ELSE file = loaded
        /\ pc # "exit" => file = loaded

\* C8 witness: a saved stats run that loaded a non-zero counter, took a
\* closed id from a tasks list and changed a debt.
C8_Witness ==
    /\ SavedStats
    /\ loaded["1"].closed > 0
    /\ Len(file["1"].tasks) < Len(loaded["1"].tasks)
    /\ file["2"].debt # loaded["2"].debt
    /\ file["1"].closed = 0

\* C10 as stated: when an assign run with save has ended, every finding it
\* tagged "inwork" is in some user's tasks list in the file.
C10_TaggedArePersisted ==
    (cmd = "assign" /\ save /\ pc = "exit") =>
        \A id \in tagged : \E k \in UserKeys : InList(file[k].tasks, id)

====
